---- MODULE Spec2Model ----
(***************************************************************************)
(* Model of the audio playback controller of ResultCard (src/App.tsx) and  *)
(* of the TTS collaborator generateSpeech (src/unnamed/part_000).          *)
(*                                                                         *)
(* One step of the model is one run-to-completion segment of JavaScript:   *)
(* a click on the audio button, the settling of an awaited promise, the    *)
(* dispatch of a source node's onended event, or a React re-render.        *)
(* React state is kept twice: the hook values (isGeneratingAudio,          *)
(* isPlaying, audioError) as of the last setState, and "rendered", the     *)
(* values of the last committed render, which are what the closure of      *)
(* handleAudioAction and the button's disabled attribute see.              *)
(***************************************************************************)
EXTENDS Integers, FiniteSets, Sequences, TLC

\* ---- bounds ----
NumCards == 2
MaxNodes == 2
MaxInflight == 2
MaxContexts == 2
NumDeleteCards == 1
MaxBytes == 4
MaxChannels == 2
MaxClock == 2
MaxHistory == 2
MaxFavorites == 3
MaxRequests == 2

Cards == 1..NumCards
NodeIds == 1..MaxNodes

\* ---- values ----
Null == {}
NoError == "null"
ErrorMessage == "Sesli brifing olusturulamadi."
EmptySummary == ""
SomeSummary == "summary"

VARIABLES
    summary,            \* result.summary of each card (a prop)
    isGeneratingAudio,  \* useState, line 70
    isPlaying,          \* useState, line 71
    audioError,         \* useState, line 72
    audioContextRef,    \* useRef, line 73: "null", or the state of the context
    sourceNodeRef,      \* useRef, line 74: Null or {node id}
    rendered,           \* the state values of the last committed render
    nodes,              \* the AudioBufferSourceNodes each card created
    pending,            \* handleAudioAction invocations suspended at an await
    thrown,             \* an exception escaped handleAudioAction
    pressedWhileGenerating, \* the control was pressed since the last start
    last,               \* the step taken last
    mounted,            \* the card is rendered by App (lines 417-419)
    contexts,           \* how many AudioContexts each card constructed
    responded,          \* generateSpeech has returned audio to the card
    pcmRaw,             \* the bytes of a PCM payload
    pcmChannels,        \* the channel count the payload is decoded with
    pcmCall,            \* who decoded the payload, or "none"
    pcmBuffer,          \* the audio buffer the decoder returned
    history,            \* useState, line 195
    favorites,          \* useState, line 196
    isLoading,          \* useState, line 199
    error,              \* useState, line 200
    selectedCountry,    \* useState, line 197: a country is selected
    selectedCategory,   \* useState, line 198: a category is selected
    activeView,         \* useState, line 203
    storage,            \* localStorage: newsBriefingHistory, newsBriefingFavorites
    stored0,            \* what localStorage held when App was mounted
    appPc,              \* how far the mount of App has come
    requests,           \* summarizeNewsWithGoogleSearch calls not yet settled
    clock,              \* Date.now()
    appLast             \* the step App took last

cardVars == <<summary, isGeneratingAudio, isPlaying, audioError,
              audioContextRef, sourceNodeRef, rendered, nodes, pending,
              thrown, pressedWhileGenerating, last, mounted, contexts,
              responded>>

pcmVars == <<pcmRaw, pcmChannels, pcmCall, pcmBuffer>>

appVars == <<history, favorites, isLoading, error, selectedCountry,
             selectedCategory, activeView, storage, stored0, appPc, requests,
             clock, appLast>>

vars == <<cardVars, pcmVars, appVars>>

\* the state of one card that the program itself holds
CardState(c) == <<isGeneratingAudio[c], isPlaying[c], audioError[c],
                  audioContextRef[c], sourceNodeRef[c], rendered[c],
                  nodes[c], pending[c], thrown[c]>>

Hooks(c) == [isGeneratingAudio |-> isGeneratingAudio[c],
             isPlaying |-> isPlaying[c],
             audioError |-> audioError[c]]

\* a source node is live when it was started and has not ended
Live(c) == {i \in NodeIds : nodes[c][i] = "rendering"}

Outstanding(c) == pending[c].speech + pending[c].resume

\* no buffer decoded yet
NoBuffer == [sampleRate |-> 0, numberOfChannels |-> 0, length |-> 0,
             channelData |-> <<>>]

PcmQuiet ==
    /\ pcmRaw = <<>>
    /\ pcmChannels = 1
    /\ pcmCall = "none"
    /\ pcmBuffer = NoBuffer

\* a localStorage key that was never written: getItem returns null
Absent == [present |-> FALSE, items |-> <<>>]

NoStep == [op |-> "none", text |-> "", id |-> 0]

\* App before it is mounted, nothing stored
AppQuiet ==
    /\ history = <<>>
    /\ favorites = <<>>
    /\ isLoading = FALSE
    /\ error = NoError
    /\ selectedCountry = FALSE
    /\ selectedCategory = FALSE
    /\ activeView = "feed"
    /\ storage = [history |-> Absent, favorites |-> Absent]
    /\ stored0 = storage
    /\ appPc = "mounted"
    /\ requests = [summary |-> 0, discovery |-> 0]
    /\ clock = 1
    /\ appLast = NoStep

\* every card as it is mounted
CardQuiet ==
    /\ isGeneratingAudio = [c \in Cards |-> FALSE]
    /\ isPlaying = [c \in Cards |-> FALSE]
    /\ audioError = [c \in Cards |-> NoError]
    /\ audioContextRef = [c \in Cards |-> "null"]
    /\ sourceNodeRef = [c \in Cards |-> Null]
    /\ rendered = [c \in Cards |-> [isGeneratingAudio |-> FALSE,
                                    isPlaying |-> FALSE,
                                    audioError |-> NoError]]
    /\ nodes = [c \in Cards |-> [i \in NodeIds |-> "free"]]
    /\ pending = [c \in Cards |-> [speech |-> 0, resume |-> 0]]
    /\ thrown = [c \in Cards |-> FALSE]
    /\ pressedWhileGenerating = [c \in Cards |-> FALSE]
    /\ last = [op |-> "init", card |-> 0]
    /\ mounted = [c \in Cards |-> TRUE]
    /\ contexts = [c \in Cards |-> 0]
    /\ responded = [c \in Cards |-> FALSE]

Init ==
    /\ PcmQuiet
    /\ AppQuiet
    /\ summary \in [Cards -> {EmptySummary, SomeSummary}]
    /\ CardQuiet

\* ---- the TTS collaborator (src/unnamed/part_000) ----
\* what ai.models.generateContent can do: reject, answer without inline
\* audio data, or answer with base64 audio
ApiOutcomes == {"rejects", "noAudio", "audio"}

\* generateSpeech: the base64 audio, or Error("Failed to generate speech.")
generateSpeech(api) == IF api = "audio" THEN "base64" ELSE "throws"

\* ---- pieces of handleAudioAction ----
\* line 160: disabled={isGeneratingAudio}
ButtonDisabled_Never(r) == FALSE

ButtonDisabled(r) == r.isGeneratingAudio

\* line 85: sourceNodeRef.current?.stop()
StopSource_NoOptionalChaining(ref, ns) ==
    IF ref = Null THEN [nodes |-> ns, thrown |-> TRUE]
    ELSE [nodes |-> [i \in NodeIds |->
                       IF i \in ref /\ ns[i] = "rendering" THEN "finished"
                       ELSE ns[i]],
          thrown |-> FALSE]

StopSource_NoHalt(ref, ns) == [nodes |-> ns, thrown |-> FALSE]

StopSource(ref, ns) ==
    IF ref = Null THEN [nodes |-> ns, thrown |-> FALSE]
    ELSE [nodes |-> [i \in NodeIds |->
                       IF i \in ref /\ ns[i] = "rendering" THEN "finished"
                       ELSE ns[i]],
          thrown |-> FALSE]

\* line 96: if (!audioContextRef.current)
NeedsNewContext_Always(ref) == TRUE

NeedsNewContext(ref) == ref = "null"

\* lines 96-103: the context the continuation goes on with: the one the ref
\* holds, or a new one, whose construction may throw and which may start
\* out suspended
ContextFor(ref) ==
    IF NeedsNewContext(ref) THEN {"throws", "suspended", "running"} ELSE {ref}

\* line 97: how many contexts exist once the continuation goes on with ctx
Constructed(n, ref, ctx) ==
    IF NeedsNewContext(ref) /\ ctx # "throws" THEN n + 1 ELSE n

\* lines 105-111: decode and decodeAudioData throw on a payload they cannot
\* turn into a buffer
Payloads == {"decodable", "undecodable"}

\* lines 126-129: the catch block
OnCatch_NoMessage(h) == [h EXCEPT !.isPlaying = FALSE]

OnCatch(h) == [h EXCEPT !.audioError = ErrorMessage, !.isPlaying = FALSE]

\* lines 130-132: the finally block
OnFinally_Missing(h) == h

OnFinally(h) == [h EXCEPT !.isGeneratingAudio = FALSE]

\* line 124: setIsPlaying(true)
OnStarted(h) == [h EXCEPT !.isPlaying = TRUE]

\* lines 118-121: source.onended
OnEnded_KeepsRef(h, ref) == [hooks |-> [h EXCEPT !.isPlaying = FALSE], ref |-> ref]

OnEnded(h, ref) == [hooks |-> [h EXCEPT !.isPlaying = FALSE], ref |-> Null]

\* refs and state are per component instance (useRef/useState, lines 70-74)
SetRef_Shared(f, c, v) == [d \in Cards |-> v]

SetRef(f, c, v) == [f EXCEPT ![c] = v]

\* a state update of a card that App no longer renders is dropped
SetHooks(c, h) ==
    IF mounted[c] THEN
        /\ isGeneratingAudio' = [isGeneratingAudio EXCEPT ![c] = h.isGeneratingAudio]
        /\ isPlaying' = [isPlaying EXCEPT ![c] = h.isPlaying]
        /\ audioError' = [audioError EXCEPT ![c] = h.audioError]
    ELSE UNCHANGED <<isGeneratingAudio, isPlaying, audioError>>

FreeNodes(c) == {i \in NodeIds : nodes[c][i] = "free"}

LeastFree(c) == CHOOSE i \in FreeNodes(c) : \A j \in FreeNodes(c) : i <= j

Step(op, c) ==
    /\ last' = [op |-> op, card |-> c]
    /\ UNCHANGED <<mounted, pcmVars, appVars>>

\* ---- handleAudioAction, lines 83-92: up to the first await ----
handleAudioAction_NoReturn(c) ==
    IF rendered[c].isPlaying /\ summary[c] # EmptySummary THEN
        LET r == StopSource(sourceNodeRef[c], nodes[c]) IN
        /\ Outstanding(c) < MaxInflight
        /\ nodes' = [nodes EXCEPT ![c] = r.nodes]
        /\ thrown' = [thrown EXCEPT ![c] = @ \/ r.thrown]
        /\ SetHooks(c, [Hooks(c) EXCEPT !.isGeneratingAudio = TRUE,
                                        !.audioError = NoError])
        /\ rendered' = [rendered EXCEPT ![c].isGeneratingAudio = TRUE,
                                        ![c].audioError = NoError]
        /\ pending' = [pending EXCEPT ![c].speech = @ + 1]
        /\ pressedWhileGenerating' = [pressedWhileGenerating EXCEPT ![c] = FALSE]
        /\ Step("stop", c)
        /\ UNCHANGED <<summary, audioContextRef, sourceNodeRef>>
    ELSE IF rendered[c].isPlaying THEN
        LET r == StopSource(sourceNodeRef[c], nodes[c]) IN
        /\ nodes' = [nodes EXCEPT ![c] = r.nodes]
        /\ thrown' = [thrown EXCEPT ![c] = @ \/ r.thrown]
        /\ Step("stop", c)
        /\ UNCHANGED <<summary, isGeneratingAudio, isPlaying, audioError,
                       audioContextRef, sourceNodeRef, rendered, pending,
                       pressedWhileGenerating>>
    ELSE IF summary[c] = EmptySummary THEN
        /\ Step("nosummary", c)
        /\ UNCHANGED <<summary, isGeneratingAudio, isPlaying, audioError,
                       audioContextRef, sourceNodeRef, rendered, nodes,
                       pending, thrown, pressedWhileGenerating>>
    ELSE
        /\ Outstanding(c) < MaxInflight
        /\ SetHooks(c, [Hooks(c) EXCEPT !.isGeneratingAudio = TRUE,
                                        !.audioError = NoError])
        /\ rendered' = [rendered EXCEPT ![c].isGeneratingAudio = TRUE,
                                        ![c].audioError = NoError]
        /\ pending' = [pending EXCEPT ![c].speech = @ + 1]
        /\ pressedWhileGenerating' = [pressedWhileGenerating EXCEPT ![c] = FALSE]
        /\ Step("start", c)
        /\ UNCHANGED <<summary, audioContextRef, sourceNodeRef, nodes, thrown>>

handleAudioAction(c) ==
    IF rendered[c].isPlaying THEN
        \* lines 84-87
        LET r == StopSource(sourceNodeRef[c], nodes[c]) IN
        /\ nodes' = [nodes EXCEPT ![c] = r.nodes]
        /\ thrown' = [thrown EXCEPT ![c] = @ \/ r.thrown]
        /\ Step("stop", c)
        /\ UNCHANGED <<summary, isGeneratingAudio, isPlaying, audioError,
                       audioContextRef, sourceNodeRef, rendered, pending,
                       pressedWhileGenerating>>
    ELSE IF summary[c] = EmptySummary THEN
        \* line 89
        /\ Step("nosummary", c)
        /\ UNCHANGED <<summary, isGeneratingAudio, isPlaying, audioError,
                       audioContextRef, sourceNodeRef, rendered, nodes,
                       pending, thrown, pressedWhileGenerating>>
    ELSE
        \* lines 90-94; the updates of a click handler are rendered before
        \* the next event is handled
        /\ Outstanding(c) < MaxInflight
        /\ SetHooks(c, [Hooks(c) EXCEPT !.isGeneratingAudio = TRUE,
                                        !.audioError = NoError])
        /\ rendered' = [rendered EXCEPT ![c].isGeneratingAudio = TRUE,
                                        ![c].audioError = NoError]
        /\ pending' = [pending EXCEPT ![c].speech = @ + 1]
        /\ pressedWhileGenerating' = [pressedWhileGenerating EXCEPT ![c] = FALSE]
        /\ Step("start", c)
        /\ UNCHANGED <<summary, audioContextRef, sourceNodeRef, nodes, thrown>>

\* lines 158-165: the user presses the audio button of card c
Click(c) ==
    /\ mounted[c]
    /\ UNCHANGED <<contexts, responded>>
    /\ IF ButtonDisabled(rendered[c]) THEN
            /\ pressedWhileGenerating' = [pressedWhileGenerating EXCEPT ![c] = TRUE]
            /\ Step("disabled", c)
            /\ UNCHANGED <<summary, isGeneratingAudio, isPlaying, audioError,
                           audioContextRef, sourceNodeRef, rendered, nodes,
                           pending, thrown>>
       ELSE handleAudioAction(c)

\* ---- handleAudioAction after an await ----
\* lines 126-132: the attempt suspended at await `from` fails
Failure(c, from, ctx) ==
    /\ SetHooks(c, OnFinally(OnCatch(Hooks(c))))
    /\ pending' = [pending EXCEPT ![c][from] = @ - 1]
    /\ audioContextRef' = [audioContextRef EXCEPT ![c] = ctx]
    /\ Step("failed", c)
    /\ UNCHANGED <<summary, sourceNodeRef, rendered, nodes, thrown,
                   pressedWhileGenerating>>

\* lines 105-124, 130-132: decode, create the source, start it
DecodeAndPlay(c, from, payload) ==
    IF payload = "undecodable" THEN Failure(c, from, "running")
    ELSE
        /\ FreeNodes(c) # {}
        /\ nodes' = [nodes EXCEPT ![c][LeastFree(c)] = "rendering"]
        /\ sourceNodeRef' = SetRef(sourceNodeRef, c, {LeastFree(c)})
        /\ SetHooks(c, OnFinally(OnStarted(Hooks(c))))
        /\ pending' = [pending EXCEPT ![c][from] = @ - 1]
        /\ audioContextRef' = [audioContextRef EXCEPT ![c] = "running"]
        /\ Step("played", c)
        /\ UNCHANGED <<summary, rendered, thrown, pressedWhileGenerating>>

\* line 94 settles; lines 96-103
SpeechSettled(c) ==
    /\ pending[c].speech > 0
    /\ \E api \in ApiOutcomes :
        IF generateSpeech(api) = "throws"
        THEN /\ Failure(c, "speech", audioContextRef[c])
             /\ UNCHANGED <<contexts, responded>>
        ELSE \E ctx \in ContextFor(audioContextRef[c]) :
            /\ responded' = [responded EXCEPT ![c] = TRUE]
            /\ Constructed(contexts[c], audioContextRef[c], ctx) <= MaxContexts
            /\ contexts' = [contexts EXCEPT ![c] =
                                Constructed(@, audioContextRef[c], ctx)]
            /\ IF ctx = "throws"
                   THEN Failure(c, "speech", audioContextRef[c])
               ELSE IF ctx = "suspended" THEN
                   /\ audioContextRef' = [audioContextRef EXCEPT ![c] = "suspended"]
                   /\ pending' = [pending EXCEPT ![c].speech = @ - 1,
                                                 ![c].resume = @ + 1]
                   /\ Step("resuming", c)
                   /\ UNCHANGED <<summary, isGeneratingAudio, isPlaying,
                                  audioError, sourceNodeRef, rendered, nodes,
                                  thrown, pressedWhileGenerating>>
               ELSE \E payload \in Payloads :
                        DecodeAndPlay(c, "speech", payload)

\* line 102 settles: audioContext.resume() resolves or rejects
ResumeSettled(c) ==
    /\ pending[c].resume > 0
    /\ UNCHANGED <<contexts, responded>>
    /\ \E resumed \in BOOLEAN :
        IF ~resumed THEN Failure(c, "resume", audioContextRef[c])
        ELSE \E payload \in Payloads : DecodeAndPlay(c, "resume", payload)

\* ---- the output device ----
\* a rendering source reaches the end of its buffer
SourceFinished(c, i) ==
    /\ nodes[c][i] = "rendering"
    /\ nodes' = [nodes EXCEPT ![c][i] = "finished"]
    /\ UNCHANGED <<contexts, responded>>
    /\ Step("finished", c)
    /\ UNCHANGED <<summary, isGeneratingAudio, isPlaying, audioError,
                   audioContextRef, sourceNodeRef, rendered, pending, thrown,
                   pressedWhileGenerating>>

\* lines 118-121: the ended event of a source that finished or was stopped
Ended(c, i) ==
    /\ nodes[c][i] = "finished"
    /\ nodes' = [nodes EXCEPT ![c][i] = "free"]
    /\ UNCHANGED <<contexts, responded>>
    /\ LET r == OnEnded(Hooks(c), sourceNodeRef[c]) IN
        /\ SetHooks(c, r.hooks)
        /\ sourceNodeRef' = SetRef(sourceNodeRef, c, r.ref)
    /\ Step("ended", c)
    /\ UNCHANGED <<summary, audioContextRef, rendered, pending, thrown,
                   pressedWhileGenerating>>

\* ---- React ----
\* the pending state updates of card c are rendered and committed
Render(c) ==
    /\ mounted[c]
    /\ UNCHANGED <<contexts, responded>>
    /\ rendered[c] # Hooks(c)
    /\ rendered' = [rendered EXCEPT ![c] = Hooks(c)]
    /\ Step("render", c)
    /\ UNCHANGED <<summary, isGeneratingAudio, isPlaying, audioError,
                   audioContextRef, sourceNodeRef, nodes, pending, thrown,
                   pressedWhileGenerating>>

Next ==
    \/ \E c \in Cards : Click(c)
    \/ \E c \in Cards : SpeechSettled(c)
    \/ \E c \in Cards : ResumeSettled(c)
    \/ \E c \in Cards, i \in NodeIds : SourceFinished(c, i)
    \/ \E c \in Cards, i \in NodeIds : Ended(c, i)
    \/ \E c \in Cards : Render(c)

Spec == Init /\ [][Next]_vars

\* ---- App removes a card ----
\* lines 141, 313-315, 417-419: the delete button of card c; the result
\* leaves history and App renders the card no more
onDelete(c) ==
    /\ mounted[c]
    /\ mounted' = [mounted EXCEPT ![c] = FALSE]
    /\ last' = [op |-> "delete", card |-> c]
    /\ UNCHANGED <<summary, isGeneratingAudio, isPlaying, audioError,
                   audioContextRef, sourceNodeRef, rendered, nodes, pending,
                   thrown, pressedWhileGenerating, contexts, responded,
                   pcmVars, appVars>>

\* the cards that take steps while deletions are studied
DeleteCards == 1..NumDeleteCards

DeleteNext ==
    \/ \E c \in DeleteCards : Click(c)
    \/ \E c \in DeleteCards : SpeechSettled(c)
    \/ \E c \in DeleteCards : ResumeSettled(c)
    \/ \E c \in DeleteCards, i \in NodeIds : SourceFinished(c, i)
    \/ \E c \in DeleteCards, i \in NodeIds : Ended(c, i)
    \/ \E c \in DeleteCards : Render(c)
    \/ \E c \in DeleteCards : onDelete(c)

DeleteSpec == Init /\ [][DeleteNext]_vars

\* the browser dispatches the ended event of every source that has ended,
\* and React renders every pending update
FairSpec ==
    /\ Spec
    /\ \A c \in Cards : WF_vars(\E i \in NodeIds : Ended(c, i))
    /\ \A c \in Cards : WF_vars(Render(c))

TypeOK ==
    /\ isGeneratingAudio \in [Cards -> BOOLEAN]
    /\ isPlaying \in [Cards -> BOOLEAN]
    /\ audioError \in [Cards -> {NoError, ErrorMessage}]
    /\ audioContextRef \in [Cards -> {"null", "suspended", "running"}]
    /\ sourceNodeRef \in [Cards -> {Null} \cup {{i} : i \in NodeIds}]
    /\ nodes \in [Cards -> [NodeIds -> {"free", "rendering", "finished"}]]

\* ---- the PCM decoder (utils/audio: decodeAudioData) ----
\* the byte values payloads are built from: both ends of the range and the
\* two values around the sign bit
Bytes == {0, 127, 128, 255}

Scale == 32768

\* one 16-bit little-endian signed sample out of two bytes
Int16LE(lo, hi) ==
    LET u == lo + 256 * hi IN IF u >= Scale THEN u - 2 * Scale ELSE u

\* the samples of a payload, two bytes at a time; a last single byte is left
RECURSIVE Samples(_)
Samples(raw) ==
    IF Len(raw) < 2 THEN <<>>
    ELSE <<Int16LE(raw[1], raw[2])>> \o Samples(SubSeq(raw, 3, Len(raw)))

\* the frames of a sample sequence, one sample per channel in turn; samples
\* that do not fill a frame are left
RECURSIVE Frames(_, _)
Frames(samples, ch) ==
    IF Len(samples) < ch THEN <<>>
    ELSE <<SubSeq(samples, 1, ch)>> \o
         Frames(SubSeq(samples, ch + 1, Len(samples)), ch)

\* the buffer of a payload: every sample stands for its value / 32768
pcmToAudioBuffer(raw, rate, ch) ==
    LET frames == Frames(Samples(raw), ch) IN
    [sampleRate |-> rate,
     numberOfChannels |-> ch,
     length |-> Len(frames),
     channelData |-> [k \in 1..ch |-> [f \in 1..Len(frames) |-> frames[f][k]]]]

\* lines 109-110: the rate and the channel count handleAudioAction passes
CardSampleRate == 24000

CardChannels_Stereo == Cardinality({"left", "right"})

CardChannels == 1

PcmFrame == UNCHANGED <<cardVars, appVars, pcmRaw, pcmChannels>>

\* the decoder applied to the payload with the channel count of the state
Decode ==
    /\ pcmCall = "none"
    /\ pcmCall' = "decoder"
    /\ pcmBuffer' = pcmToAudioBuffer(pcmRaw, CardSampleRate, pcmChannels)
    /\ PcmFrame

\* lines 105-111: the decoder as handleAudioAction calls it
DecodeForCard ==
    /\ pcmCall = "none"
    /\ pcmCall' = "card"
    /\ pcmBuffer' = pcmToAudioBuffer(pcmRaw, CardSampleRate, CardChannels)
    /\ PcmFrame

\* the next payload
Discard ==
    /\ pcmCall # "none"
    /\ pcmCall' = "none"
    /\ pcmBuffer' = NoBuffer
    /\ PcmFrame

PcmPayloads == UNION {[1..n -> Bytes] : n \in 0..MaxBytes}

PcmInit ==
    /\ pcmRaw \in PcmPayloads
    /\ pcmChannels \in 1..MaxChannels
    /\ pcmCall = "none"
    /\ pcmBuffer = NoBuffer
    /\ summary = [c \in Cards |-> SomeSummary]
    /\ CardQuiet
    /\ AppQuiet

PcmNext ==
    \/ Decode
    \/ DecodeForCard
    \/ Discard

PcmSpec == PcmInit /\ [][PcmNext]_vars

\* ---- App: the data (src/types.ts) ----
\* the news items favorites are made of
Texts == {"a", "b"}

\* the summaries a request can return, as their lines: an empty text, one
\* bulleted item, two items
Summaries == {<<"">>, <<"- a">>, <<"- a", "b">>}

\* line 79: trim, and drop a leading bullet or number
StripBullet(line) == IF line = "- a" THEN "a" ELSE line

\* lines 77-80: newsItems
RECURSIVE newsItems(_)
newsItems(lines) ==
    IF lines = <<>> THEN <<>>
    ELSE (IF StripBullet(Head(lines)) = "" THEN <<>>
          ELSE <<StripBullet(Head(lines))>>) \o newsItems(Tail(lines))

\* lines 258-264, 280-286: id and timestamp are both taken from the clock
NewResult(now, text) == [id |-> now, timestamp |-> now, summary |-> text]

\* lines 321-322: sort((a, b) => b.timestamp - a.timestamp), a stable sort
RECURSIVE InsertByTimestamp(_, _)
InsertByTimestamp(x, xs) ==
    IF xs = <<>> THEN <<x>>
    ELSE IF Head(xs).timestamp >= x.timestamp
         THEN <<Head(xs)>> \o InsertByTimestamp(x, Tail(xs))
         ELSE <<x>> \o xs

RECURSIVE sortByTimestamp(_)
sortByTimestamp(xs) ==
    IF xs = <<>> THEN <<>>
    ELSE InsertByTimestamp(xs[Len(xs)],
                           sortByTimestamp(SubSeq(xs, 1, Len(xs) - 1)))

\* lines 241-242: JSON.stringify of the two lists, item by item
StringifyHistory(h) ==
    [present |-> TRUE,
     items |-> [i \in 1..Len(h) |-> <<h[i].id, h[i].summary, h[i].timestamp>>]]

StringifyFavorites(f) ==
    [present |-> TRUE,
     items |-> [i \in 1..Len(f) |-> <<f[i].id, f[i].text, f[i].timestamp>>]]

\* lines 230, 232: JSON.parse
ParseHistory(v) ==
    [i \in 1..Len(v.items) |->
        [id |-> v.items[i][1], summary |-> v.items[i][2],
         timestamp |-> v.items[i][3]]]

ParseFavorites(v) ==
    [i \in 1..Len(v.items) |->
        [id |-> v.items[i][1], text |-> v.items[i][2],
         timestamp |-> v.items[i][3]]]

HasText(f, text) == \E i \in 1..Len(f) : f[i].text = text

NoDuplicateTexts(f) ==
    \A i \in 1..Len(f), j \in 1..Len(f) : f[i].text = f[j].text => i = j

\* lines 298-306: the updater of handleAddFavorite
ToggleFavorite_AlwaysAdds(prev, text, timestamp, now) ==
    <<[id |-> now, text |-> text, timestamp |-> timestamp]>> \o prev

ToggleFavorite(prev, text, timestamp, now) ==
    IF HasText(prev, text)
    THEN SelectSeq(prev, LAMBDA item : item.text # text)
    ELSE <<[id |-> now, text |-> text, timestamp |-> timestamp]>> \o prev

\* line 310, line 314: filter(item => item.id !== id)
RemoveById(prev, id) == SelectSeq(prev, LAMBDA item : item.id # id)

\* lines 250, 268, 291
SelectError == "Lutfen bir ulke ve kategori secin."
SummaryError == "Haber ozeti alinirken bir hata olustu. Lutfen tekrar deneyin."
DiscoveryError == "Icerik getirilirken bir hata olustu. Lutfen tekrar deneyin."

\* line 406 and line 436: the disabled attributes of the request buttons
SummaryDisabled(loading, country, category) ==
    loading \/ ~country \/ ~category

DiscoverDisabled_Never(loading) == FALSE

DiscoverDisabled(loading) == loading

\* part_000 lines 9-27: the summary text, or Error("Failed to summarize news.")
SummaryOutcomes == {<<"rejects">>} \cup {<<"text", text>> : text \in Summaries}

summarizeNewsWithGoogleSearch(api) ==
    IF api[1] = "rejects" THEN <<"throws">> ELSE api

\* ---- App: what localStorage can hold when App is mounted ----
SeqsUpTo(S, n) == UNION {[1..m -> S] : m \in 0..n}

Results(now) == {NewResult(t, text) : t \in 1..now, text \in Summaries}

\* a favorite is added after the result it comes from was made
FavoriteItems(now) ==
    {[id |-> i, text |-> x, timestamp |-> t] :
        i \in 1..now, x \in Texts, t \in 1..now} \cap
    {item \in [id : 1..now, text : Texts, timestamp : 1..now] :
        item.id >= item.timestamp}

\* both lists are stored as the last render sorted them
StoredHistories(now) ==
    {Absent} \cup
    {StringifyHistory(sortByTimestamp(h)) :
        h \in SeqsUpTo(Results(now), MaxHistory)}

StoredFavorites(now) ==
    {Absent} \cup
    {StringifyFavorites(sortByTimestamp(f)) :
        f \in {g \in SeqsUpTo(FavoriteItems(now), Cardinality(Texts)) :
                 NoDuplicateTexts(g)}}

AppInit ==
    /\ PcmQuiet
    /\ CardQuiet
    /\ summary = [c \in Cards |-> SomeSummary]
    /\ clock \in 1..MaxClock
    /\ storage \in [history : StoredHistories(clock),
                    favorites : StoredFavorites(clock)]
    /\ stored0 = storage
    /\ history = <<>>
    /\ favorites = <<>>
    /\ isLoading = FALSE
    /\ error = NoError
    /\ selectedCountry = FALSE
    /\ selectedCategory = FALSE
    /\ activeView = "feed"
    /\ appPc = "mounted"
    /\ requests = [summary |-> 0, discovery |-> 0]
    /\ appLast = NoStep

\* ---- App: the steps ----
AppStep(op, text, id) ==
    /\ appLast' = [op |-> op, text |-> text, id |-> id]
    /\ UNCHANGED <<cardVars, pcmVars, stored0>>

\* lines 321-322 and 239-246: the render sorts both lists and the save
\* effect stores them
Commit_SavesOnMountOnly(h, f) ==
    /\ history' = sortByTimestamp(h)
    /\ favorites' = sortByTimestamp(f)
    /\ UNCHANGED storage

Commit(h, f) ==
    /\ history' = sortByTimestamp(h)
    /\ favorites' = sortByTimestamp(f)
    /\ storage' = [history |-> StringifyHistory(sortByTimestamp(h)),
                   favorites |-> StringifyFavorites(sortByTimestamp(f))]

\* lines 227-236: the load effect of the first render
LoadEffect ==
    /\ appPc = "mounted"
    /\ appPc' = "loaded"
    /\ history' = IF storage.history.present
                  THEN ParseHistory(storage.history) ELSE history
    /\ favorites' = IF storage.favorites.present
                    THEN ParseFavorites(storage.favorites) ELSE favorites
    /\ AppStep("load", "", 0)
    /\ UNCHANGED <<isLoading, error, selectedCountry, selectedCategory,
                   activeView, storage, requests, clock>>

\* lines 239-246: the save effect of the first render, which still sees the
\* empty lists of lines 195-196
SaveEffectOnMount ==
    /\ appPc = "loaded"
    /\ appPc' = "saved"
    /\ storage' = [history |-> StringifyHistory(<<>>),
                   favorites |-> StringifyFavorites(<<>>)]
    /\ AppStep("save", "", 0)
    /\ UNCHANGED <<history, favorites, isLoading, error, selectedCountry,
                   selectedCategory, activeView, requests, clock>>

\* the render the load effect asked for, and its save effect
ReRender ==
    /\ appPc = "saved"
    /\ appPc' = "ready"
    /\ Commit(history, favorites)
    /\ AppStep("rerender", "", 0)
    /\ UNCHANGED <<isLoading, error, selectedCountry, selectedCategory,
                   activeView, requests, clock>>

\* the clock goes on
Tick ==
    /\ clock < MaxClock
    /\ clock' = clock + 1
    /\ AppStep("tick", "", 0)
    /\ UNCHANGED <<history, favorites, isLoading, error, selectedCountry,
                   selectedCategory, activeView, storage, appPc, requests>>

\* lines 351-358
setActiveView(view) ==
    /\ appPc = "ready"
    /\ activeView' = view
    /\ AppStep("view", "", 0)
    /\ UNCHANGED <<history, favorites, isLoading, error, selectedCountry,
                   selectedCategory, storage, appPc, requests, clock>>

\* line 371
setSelectedCountry ==
    /\ appPc = "ready"
    /\ activeView = "feed"
    /\ selectedCountry' = TRUE
    /\ AppStep("country", "", 0)
    /\ UNCHANGED <<history, favorites, isLoading, error, selectedCategory,
                   activeView, storage, appPc, requests, clock>>

\* line 390
setSelectedCategory ==
    /\ appPc = "ready"
    /\ activeView = "feed"
    /\ selectedCategory' = TRUE
    /\ AppStep("category", "", 0)
    /\ UNCHANGED <<history, favorites, isLoading, error, selectedCountry,
                   activeView, storage, appPc, requests, clock>>

Requested == requests.summary + requests.discovery

\* lines 248-257 and 404-407: the summary button
handleGetSummary ==
    /\ appPc = "ready"
    /\ activeView = "feed"
    /\ ~SummaryDisabled(isLoading, selectedCountry, selectedCategory)
    /\ IF ~selectedCountry \/ ~selectedCategory THEN
            /\ error' = SelectError
            /\ AppStep("select", "", 0)
            /\ UNCHANGED <<history, favorites, isLoading, selectedCountry,
                           selectedCategory, activeView, storage, appPc,
                           requests, clock>>
       ELSE
            /\ Requested < MaxRequests
            /\ Len(history) + Requested < MaxHistory
            /\ isLoading' = TRUE
            /\ error' = NoError
            /\ requests' = [requests EXCEPT !.summary = @ + 1]
            /\ AppStep("getSummary", "", 0)
            /\ UNCHANGED <<history, favorites, selectedCountry,
                           selectedCategory, activeView, storage, appPc,
                           clock>>

\* lines 274-279 and 433-436: a discover button
handleGetDiscovery ==
    /\ appPc = "ready"
    /\ activeView = "discover"
    /\ ~DiscoverDisabled(isLoading)
    /\ Requested < MaxRequests
    /\ Len(history) + Requested < MaxHistory
    /\ isLoading' = TRUE
    /\ error' = NoError
    /\ requests' = [requests EXCEPT !.discovery = @ + 1]
    /\ AppStep("getDiscovery", "", 0)
    /\ UNCHANGED <<history, favorites, selectedCountry, selectedCategory,
                   activeView, storage, appPc, clock>>

\* lines 257-271 and 279-294: the request of handler `kind` settles
RequestSettled(kind) ==
    /\ requests[kind] > 0
    /\ requests' = [requests EXCEPT ![kind] = @ - 1]
    /\ isLoading' = FALSE
    /\ \E api \in SummaryOutcomes :
        LET r == summarizeNewsWithGoogleSearch(api) IN
        IF r[1] = "throws" THEN
            /\ error' = IF kind = "summary" THEN SummaryError
                        ELSE DiscoveryError
            /\ AppStep("requestFailed", "", 0)
            /\ UNCHANGED <<history, favorites, selectedCountry,
                           selectedCategory, activeView, storage, appPc,
                           clock>>
        ELSE
            /\ Commit(<<NewResult(clock, r[2])>> \o history, favorites)
            /\ activeView' = IF kind = "discovery" THEN "feed" ELSE activeView
            /\ AppStep("requestDone", "", clock)
            /\ UNCHANGED <<error, selectedCountry, selectedCategory, appPc,
                           clock>>

\* lines 149, 297-307: the star of an item of a result card
handleAddFavorite ==
    /\ appPc = "ready"
    /\ activeView = "feed"
    /\ \E i \in 1..Len(history) :
       \E k \in 1..Len(newsItems(history[i].summary)) :
        LET text == newsItems(history[i].summary)[k]
            next == ToggleFavorite(favorites, text, history[i].timestamp, clock)
        IN  /\ Len(next) <= MaxFavorites
            /\ Commit(history, next)
            /\ AppStep("addFavorite", text, clock)
    /\ UNCHANGED <<isLoading, error, selectedCountry, selectedCategory,
                   activeView, appPc, requests, clock>>

\* lines 309-311, 462: the trash button of a favorite
handleRemoveFavorite ==
    /\ appPc = "ready"
    /\ activeView = "favorites"
    /\ \E i \in 1..Len(favorites) :
        /\ Commit(history, RemoveById(favorites, favorites[i].id))
        /\ AppStep("removeFavorite", favorites[i].text, favorites[i].id)
    /\ UNCHANGED <<isLoading, error, selectedCountry, selectedCategory,
                   activeView, appPc, requests, clock>>

\* lines 141, 313-315: the trash button of a result card
handleDeleteResult ==
    /\ appPc = "ready"
    /\ activeView = "feed"
    /\ \E i \in 1..Len(history) :
        /\ Commit(RemoveById(history, history[i].id), favorites)
        /\ AppStep("deleteResult", "", history[i].id)
    /\ UNCHANGED <<isLoading, error, selectedCountry, selectedCategory,
                   activeView, appPc, requests, clock>>

\* ---- App: the mount alone ----
MountNext ==
    \/ LoadEffect
    \/ SaveEffectOnMount
    \/ ReRender

MountSpec == AppInit /\ [][MountNext]_vars

\* ---- App: the favorites ----
FavoritesNext ==
    \/ LoadEffect
    \/ SaveEffectOnMount
    \/ ReRender
    \/ Tick
    \/ \E view \in {"feed", "favorites"} : setActiveView(view)
    \/ handleAddFavorite
    \/ handleRemoveFavorite

FavoritesSpec == AppInit /\ [][FavoritesNext]_vars

\* ---- App: the requests, with no favorites stored ----
SummaryInit == AppInit /\ ~storage.favorites.present

SummaryNext ==
    \/ LoadEffect
    \/ SaveEffectOnMount
    \/ ReRender
    \/ Tick
    \/ \E view \in {"feed", "discover", "favorites"} : setActiveView(view)
    \/ setSelectedCountry
    \/ setSelectedCategory
    \/ handleGetSummary
    \/ handleGetDiscovery
    \/ \E kind \in {"summary", "discovery"} : RequestSettled(kind)
    \/ handleDeleteResult

SummarySpec == SummaryInit /\ [][SummaryNext]_vars

\* ---- phases ----
Idle(c) == ~isGeneratingAudio[c] /\ ~isPlaying[c]

ClickOps == {"disabled", "start", "stop", "nosummary"}

Did(op, c) == last = [op |-> op, card |-> c]

\* C1: at most one source node created by a card is live (started and not
\* yet ended) at any time.
C1_AtMostOneLiveSource == \A c \in Cards : Cardinality(Live(c)) <= 1

\* a source was started on a card whose button had been pressed during the
\* generation
C1_Witness ==
    \E c \in Cards : /\ Did("played", c)
                     /\ Cardinality(Live(c)) = 1
                     /\ pressedWhileGenerating[c]

\* C2: after the stop action on a Playing card the card reaches Idle with no
\* live source and sourceNodeRef cleared, by the ended event alone.
C2_StopLeadsToIdle ==
    \A c \in Cards :
        (Did("stop", c) /\ isPlaying[c])
            ~> (Idle(c) /\ Live(c) = {} /\ sourceNodeRef[c] = Null)

C2_Witness ==
    \E c \in Cards : /\ Did("stop", c)
                     /\ isPlaying[c]
                     /\ sourceNodeRef[c] # Null
                     /\ \E i \in sourceNodeRef[c] : nodes[c][i] = "finished"

\* C3: an attempt that fails while Generating puts the card into Idle with
\* audioError set to the message, starts no source node and throws nothing
\* out of handleAudioAction.
C3_FailureLandsIdle ==
    [][\A c \in Cards :
        (last' = [op |-> "failed", card |-> c]) =>
            /\ isGeneratingAudio[c]
            /\ ~isGeneratingAudio'[c]
            /\ ~isPlaying'[c]
            /\ audioError'[c] = ErrorMessage
            /\ nodes'[c] = nodes[c]
            /\ sourceNodeRef'[c] = sourceNodeRef[c]
            /\ ~thrown'[c]]_vars

\* the failure of audioContext.resume(): the context stays suspended
C3_Witness ==
    \E c \in Cards : /\ Did("failed", c)
                     /\ audioContextRef[c] = "suspended"
                     /\ audioError[c] = ErrorMessage
                     /\ Idle(c)

\* C4 (as claimed): once the control was pressed during the generation, the
\* response that arrives starts no source node and the card is Idle.
C4_Original ==
    \A c \in Cards :
        (pressedWhileGenerating[c] /\ last.card = c
            /\ last.op \in {"played", "failed"})
        => (Idle(c) /\ Live(c) = {})

\* C4 (amended): a press of the button of a card that is rendered as
\* Generating changes nothing of the card, and a response that decodes
\* starts a source node and makes the card Playing.
C4_PressWhileGeneratingIgnored ==
    [][\A c \in Cards :
        /\ (rendered[c].isGeneratingAudio /\ last'.card = c
                /\ last'.op \in ClickOps)
            => UNCHANGED CardState(c)
        /\ (last' = [op |-> "played", card |-> c])
            => (isPlaying'[c] /\ ~isGeneratingAudio'[c]
                /\ sourceNodeRef'[c] # Null
                /\ \A i \in sourceNodeRef'[c] : nodes'[c][i] = "rendering")]_vars

C4_Witness ==
    \E c \in Cards : /\ Did("played", c)
                     /\ pressedWhileGenerating[c]
                     /\ isPlaying[c]
                     /\ Live(c) # {}

\* C5 (as claimed): the action invoked on a Playing card issues a new TTS
\* request and makes the card Generating.
C5_Original ==
    \A c \in Cards :
        (Did("stop", c) /\ ~Idle(c))
        => (isGeneratingAudio[c] /\ pending[c].speech > 0)

\* C5 (amended): the action invoked on a Playing card only stops: the source
\* is halted, no TTS request is issued and the hooks are left alone.
C5_StopOnly ==
    [][\A c \in Cards :
        (rendered[c].isPlaying /\ isPlaying[c]
            /\ last' = [op |-> "stop", card |-> c])
        => /\ Live(c)' = {}
           /\ pending'[c] = pending[c]
           /\ Hooks(c)' = Hooks(c)
           /\ rendered'[c] = rendered[c]
           /\ sourceNodeRef'[c] = sourceNodeRef[c]]_vars

C5_Witness ==
    \E c \in Cards : /\ Did("stop", c)
                     /\ isPlaying[c]
                     /\ ~isGeneratingAudio[c]
                     /\ Outstanding(c) = 0
                     /\ Live(c) = {}
                     /\ \E i \in NodeIds : nodes[c][i] = "finished"

\* C6: at most one TTS request of a card is outstanding, and a request is
\* issued only from a card that is neither Generating nor Playing.
C6_NoOverlappingStart ==
    [][\A c \in Cards :
        /\ Outstanding(c)' <= 1
        /\ (pending'[c].speech > pending[c].speech)
            => (Idle(c) /\ Outstanding(c) = 0 /\ Live(c) = {})]_vars

\* a second start of a card, after an earlier play
C6_Witness ==
    \E c \in Cards : /\ Did("start", c)
                     /\ audioContextRef[c] = "running"
                     /\ Outstanding(c) = 1

\* C7: isGeneratingAudio and isPlaying are never both true, in the hooks and
\* in the committed render.
C7_OnePhase ==
    \A c \in Cards :
        /\ ~(isGeneratingAudio[c] /\ isPlaying[c])
        /\ ~(rendered[c].isGeneratingAudio /\ rendered[c].isPlaying)

\* the hand-over: the source has been started, the render is still to come
C7_Witness ==
    \E c \in Cards : /\ Did("played", c)
                     /\ isPlaying[c]
                     /\ ~isGeneratingAudio[c]
                     /\ rendered[c].isGeneratingAudio

\* C8: the stop branch taken on a card that is already Idle (no live source,
\* sourceNodeRef null) throws nothing and changes nothing of the card.
C8_StopWhenIdleNoEffect ==
    [][\A c \in Cards :
        (Idle(c) /\ sourceNodeRef[c] = Null /\ Live(c) = {}
            /\ last' = [op |-> "stop", card |-> c])
        => (UNCHANGED CardState(c) /\ ~thrown'[c])]_vars

C8_Witness ==
    \E c \in Cards : /\ Did("stop", c)
                     /\ Idle(c)
                     /\ sourceNodeRef[c] = Null
                     /\ rendered[c].isPlaying

\* C9: an Idle card holds no source node in sourceNodeRef and has no source
\* rendering.
C9_IdleHoldsNoDevice ==
    \A c \in Cards :
        Idle(c) => (sourceNodeRef[c] = Null /\ Live(c) = {})

C9_Witness ==
    \E c \in Cards : /\ Did("ended", c)
                     /\ Idle(c)
                     /\ sourceNodeRef[c] = Null
                     /\ audioContextRef[c] = "running"

\* C10: a step of one card leaves the hooks, the render, the refs, the
\* sources and the requests of every other card unchanged.
C10_CardsIndependent ==
    [][\A c \in Cards, d \in Cards :
        (last'.card = c /\ d # c) => UNCHANGED CardState(d)]_vars

\* one card fails while another one is playing
C10_Witness ==
    \E c \in Cards, d \in Cards :
        /\ c # d
        /\ Did("failed", c)
        /\ isPlaying[d]
        /\ Live(d) # {}
        /\ sourceNodeRef[d] # Null

\* C13: a card constructs at most one AudioContext, holds it in
\* audioContextRef from then on, and constructs none before generateSpeech
\* has returned audio to it.
C13_OneContextPerCard ==
    \A c \in Cards :
        /\ contexts[c] <= 1
        /\ (contexts[c] = 0) <=> (audioContextRef[c] = "null")
        /\ (contexts[c] > 0) => responded[c]

\* a later play begins on the context an earlier attempt left suspended
C13_Witness ==
    \E c \in Cards : /\ Did("start", c)
                     /\ contexts[c] = 1
                     /\ audioContextRef[c] = "suspended"
                     /\ responded[c]

\* C14: no source node of a card that was deleted is rendering, whether it
\* was started before the deletion or by a response that arrived after it.
C14_PlaybackEndsWithCard ==
    \A c \in Cards : ~mounted[c] => Live(c) = {}

C11_FavoritesToggle ==
    [][/\ NoDuplicateTexts(favorites')
       /\ \A T \in Texts :
            (appLast'.op = "addFavorite" /\ appLast'.text = T) =>
                IF HasText(favorites, T)
                THEN /\ ~HasText(favorites', T)
                     /\ Len(favorites') = Len(favorites) - 1
                ELSE /\ HasText(favorites', T)
                     /\ Len(favorites') = Len(favorites) + 1]_vars

\* a favorite that came from the store was toggled off, the other one stays
C11_Witness ==
    /\ appLast.op = "addFavorite"
    /\ stored0.favorites.present
    /\ Len(stored0.favorites.items) = 2
    /\ Len(favorites) = 1
    /\ ~HasText(favorites, appLast.text)

\* C15: at most one summarization request is outstanding, isLoading is true
\* exactly while one is, a failed request leaves history as it is and sets
\* error, a successful one puts one Result in front of history, and both
\* end with isLoading false.
C15_OneRequestAtATime ==
    [][/\ Requested' <= 1
       /\ isLoading' <=> (Requested' = 1)
       /\ (appLast'.op = "requestFailed" /\ Requested' < Requested) =>
            /\ history' = history
            /\ error' \in {SummaryError, DiscoveryError}
            /\ ~isLoading'
       /\ (appLast'.op = "requestDone" /\ Requested' < Requested) =>
            /\ Len(history') = Len(history) + 1
            /\ SubSeq(history', 2, Len(history')) = history
            /\ history'[1].id = clock
            /\ ~isLoading']_vars

\* a discovery request succeeded on top of a stored result
C15_Witness ==
    /\ appLast.op = "requestDone"
    /\ Len(history) = 2
    /\ stored0.history.present
    /\ Len(stored0.history.items) = 1
    /\ ~isLoading
    /\ Requested = 0

\* C16: when both lists were stored, then after the mount effects and the
\* render they ask for, history and favorites are the stored lists and
\* localStorage holds them again.
C16_MountKeepsData ==
    (appPc = "ready" /\ stored0.history.present /\ stored0.favorites.present)
    => /\ history = ParseHistory(stored0.history)
       /\ favorites = ParseFavorites(stored0.favorites)
       /\ storage = stored0

C16_Witness ==
    /\ appPc = "ready"
    /\ Len(history) = 2
    /\ Len(favorites) = 2
    /\ history[1].timestamp > history[2].timestamp
    /\ storage = stored0

====
